---- MODULE Spec2Model ----
(***************************************************************************)
(* arduino-timer: a fixed-capacity pool of timers (TimerSet) driven by a   *)
(* host loop that calls tick().  The model follows                         *)
(* src/src/arduino-timer-cpp17.hpp; the older src/src/arduino-timer.h is   *)
(* modelled where it differs (SpecLegacy).                                 *)
(*                                                                         *)
(* A tick is split at the points where user code runs: tick_slot examines  *)
(* one slot of the for loop and, when the slot is due, enters its handler; *)
(* while the handler runs it may call the scheduling API and the clock may *)
(* advance; handler_return applies the handler's result to the slot.       *)
(***************************************************************************)
EXTENDS Integers, FiniteSets, Sequences, TLC

\* ---------------------------------------------------------------- bounds
\* TimerSet<max_timers>: the pool size the model instantiates.
max_timers == 2
\* Timepoint is an unsigned integer; the model keeps its wrap with a narrow range.
Range == 4
\* delays, intervals and HandlerResult.next stay under half the range
MaxDelay == (Range \div 2) - 1
\* number of API calls (scheduling, cancel, reschedule) in one behaviour
MaxCalls == 3
\* number of units the clock advances in one behaviour: up to a full wrap
MaxTime == Range - 1

Timepoint == 0..(Range - 1)
Slots == 1..max_timers
Delays == 0..MaxDelay
Status == {"completed", "repeat", "reschedule"}
Kinds == {"in", "at", "every", "now_and_every"}

\* unsigned subtraction of two Timepoints
Sub(a, b) == (a - b + Range) % Range
\* std::numeric_limits<Timepoint>::max()
TimepointMax == Range - 1
\* the clock starts one unit before it wraps
InitClock == Range - 1
\* absolute times passed to at and reschedule_at: one unit ahead of `now`, one unit behind
Whens(now) == {(now + 1) % Range, (now + Range - 1) % Range}

VARIABLES
    timers,   \* std::array<Timer, max_timers>: slot -> Timer
    clock,    \* what clock::now() returns
    pc,       \* "idle": no tick running; "scan": in tick's first loop; "handler": in a handler
    idx,      \* the slot the first loop of tick is at (max_timers + 1: past the end)
    tnow,     \* the local `now` of the loop body whose handler is running
    cur,      \* the handler that is running ("empty": none)
    calls,    \* number of API calls made so far
    held,     \* the slots that the non-empty TimerHandles returned so far refer to
    last,     \* the call or handler that the latest step completed, with what it returned
    hist      \* history of one scheduling call, chosen arbitrarily (not program state)

vars == <<timers, clock, pc, idx, tnow, cur, calls, held, last, hist>>

\* Handler values: an empty std::function, the handler passed by the scheduling call that
\* hist follows, and any other handler
Handlers == {"empty", "followed", "other"}

\* struct Timer; a value-initialised Timer has an empty handler and zero fields
FreeTimer == [handler |-> "empty", start |-> 0, expires |-> 0, repeat |-> 0]

\* op: "none", "schedule" (in, at, every, now_and_every), "cancel", "reschedule"
\* (reschedule_in, reschedule_at), "return" (a handler returned to tick) or "tick" (tick
\* returned); handle: the TimerHandle a scheduling call returned or the one passed to
\* cancel and reschedule_* (0: empty); status, next: the HandlerResult; ret: tick's value
NoLast == [op |-> "none", handle |-> 0, status |-> "none", next |-> 0, ret |-> 0]

\* What the model remembers of the followed call. kind: the call ("none": no call followed
\* yet; "reschedule": the timer's interval now comes from its handler's reschedule result;
\* "done": nothing more is remembered); arg: the call's argument, or the handler's next;
\* handle: the TimerHandle the call returned (0: empty); anchor: the clock reading of the
\* call or of the timer's latest firing; fired: its handler has been invoked; cancelled: a
\* cancel freed it; resched: a reschedule call moved it.
NoHist == [kind |-> "none", arg |-> 0, handle |-> 0, anchor |-> 0, fired |-> FALSE,
           cancelled |-> FALSE, resched |-> FALSE]

\* no slot holds the followed handler
Gone(ts) == \A i \in Slots : ts[i].handler # "followed"

\* History is kept as long as it can matter: of a timer that left the pool, the handle and
\* whether a cancel freed it; of a timer a reschedule call moved, also the call and whether
\* it fired.
Settle(h, ts) ==
    IF h.kind = "none" THEN h
    ELSE IF Gone(ts)
    THEN [NoHist EXCEPT !.kind = "done", !.handle = h.handle, !.cancelled = h.cancelled]
    ELSE IF h.resched THEN [h EXCEPT !.arg = 0, !.anchor = 0]
    ELSE h

\* ------------------------------------------------------- private members

\* remove(TimerHandle): handle 0 is the empty optional
remove(ts, handle) ==
    IF handle = 0 THEN ts ELSE [ts EXCEPT ![handle] = FreeTimer]

\* next_timer_slot(): first slot without a handler, max_timers + 1 for timers.end()
next_timer_slot(ts) ==
    IF \E i \in Slots : ts[i].handler = "empty"
    THEN CHOOSE i \in Slots : ts[i].handler = "empty" /\ \A j \in Slots : ts[j].handler = "empty" => i <= j
    ELSE max_timers + 1

\* add_timer gone wrong: with no free slot it takes the last slot over
add_timer_overwrites(ts, start, expires, h, repeat) ==
    LET it == IF next_timer_slot(ts) # max_timers + 1 THEN next_timer_slot(ts)
              ELSE max_timers IN
    [timers |-> [ts EXCEPT ![it] = [handler |-> h, start |-> start,
                                    expires |-> expires, repeat |-> repeat]],
     handle |-> it]

\* add_timer(start, expires, h, repeat): the pool afterwards and the handle returned
add_timer(ts, start, expires, h, repeat) ==
    LET it == next_timer_slot(ts) IN
    IF it # max_timers + 1
    THEN [timers |-> [ts EXCEPT ![it] = [handler |-> h, start |-> start,
                                         expires |-> expires, repeat |-> repeat]],
          handle |-> it]
    ELSE [timers |-> ts, handle |-> 0]

\* reschedule_timer gone wrong: it rearms a free slot too
reschedule_timer_arms_free(ts, handle, start, expires) ==
    IF handle = 0 THEN ts
    ELSE [ts EXCEPT ![handle].start = start, ![handle].expires = expires]

\* reschedule_timer(handle, start, expires)
reschedule_timer(ts, handle, start, expires) ==
    IF handle = 0 THEN ts
    ELSE IF ts[handle].handler = "empty" THEN ts
    ELSE [ts EXCEPT ![handle].start = start, ![handle].expires = expires]

\* cancel gone wrong: it empties the handler and keeps start, expires and repeat
cancel_timer_keeps_fields(ts, handle) ==
    IF handle = 0 THEN ts
    ELSE IF ts[handle].handler = "empty" THEN ts
    ELSE [ts EXCEPT ![handle].handler = "empty"]

\* cancel(handle): the pool afterwards
cancel_timer(ts, handle) ==
    IF handle = 0 THEN ts
    ELSE IF ts[handle].handler = "empty" THEN ts
    ELSE remove(ts, handle)

\* the switch gone wrong: the repeat case has no break and falls into reschedule
tick_outcome_falls_through(ts, i, now, status, next) ==
    CASE status = "completed" -> remove(ts, i)
      [] status = "repeat" ->
            IF ts[i].repeat > 0
            THEN [ts EXCEPT ![i].start = now, ![i].expires = next]
            ELSE remove(ts, i)
      [] status = "reschedule" ->
            [ts EXCEPT ![i].start = now, ![i].expires = next]

\* the switch gone wrong: reschedule rearms with the slot's repeat when it has one
tick_outcome_repeat_wins(ts, i, now, status, next) ==
    CASE status = "completed" -> remove(ts, i)
      [] status = "repeat" ->
            IF ts[i].repeat > 0
            THEN [ts EXCEPT ![i].start = now, ![i].expires = ts[i].repeat]
            ELSE remove(ts, i)
      [] status = "reschedule" ->
            [ts EXCEPT ![i].start = now,
                       ![i].expires = IF ts[i].repeat > 0 THEN ts[i].repeat ELSE next]

\* the switch on the handler's status in tick(), for the slot `i` whose handler ran
tick_outcome(ts, i, now, status, next) ==
    CASE status = "completed" -> remove(ts, i)
      [] status = "repeat" ->
            IF ts[i].repeat > 0
            THEN [ts EXCEPT ![i].start = now, ![i].expires = ts[i].repeat]
            ELSE remove(ts, i)
      [] status = "reschedule" ->
            [ts EXCEPT ![i].start = now, ![i].expires = next]

\* arduino-timer.h, cancel(handle): `auto timer = handle.value().get();` makes `timer` a
\* copy of the slot (Timer's copy constructor is deleted, so a build only accepts this
\* where the copy is allowed); the test reads the copy and remove(timer) clears the copy.
legacy_cancel_timer(ts, handle) ==
    IF handle = 0 THEN ts
    ELSE LET timer == ts[handle] IN
         IF timer.handler = "empty" THEN ts
         ELSE LET cleared == [timer EXCEPT !.handler = "empty", !.start = 0,
                                           !.expires = 0, !.repeat = 0]
              IN ts

\* arduino-timer.h, the switch in tick(): repeat rearms whatever timer.repeat is
legacy_tick_outcome(ts, i, now, status, next) ==
    CASE status = "completed" -> remove(ts, i)
      [] status = "repeat" ->
            [ts EXCEPT ![i].start = now, ![i].expires = ts[i].repeat]
      [] status = "reschedule" ->
            [ts EXCEPT ![i].start = now, ![i].expires = next]

\* the test gone wrong: the subtraction does not wrap
tick_due_no_wrap(t, now) == now - t.start >= t.expires

\* the test of tick()'s first loop: elapsed >= timer.expires
tick_due(t, now) == Sub(now, t.start) >= t.expires

\* remaining = timer.expires - (now - timer.start)
tick_remaining(t, now) == Sub(t.expires, Sub(now, t.start))

\* tick()'s second loop and its return statement
RECURSIVE tick_min(_, _, _, _)
tick_min(ts, now, i, acc) ==
    IF i > max_timers THEN acc
    ELSE IF ts[i].handler = "empty" THEN tick_min(ts, now, i + 1, acc)
    ELSE LET remaining == tick_remaining(ts[i], now) IN
         tick_min(ts, now, i + 1, IF remaining < acc THEN remaining ELSE acc)

tick_next_expiration(ts, now) ==
    LET next_expiration == tick_min(ts, now, 1, TimepointMax) IN
    IF next_expiration = TimepointMax THEN 0 ELSE next_expiration

\* ------------------------------------------------------------------ Init

Init ==
    /\ timers = [i \in Slots |-> FreeTimer]
    /\ clock = InitClock
    /\ pc = "idle"
    /\ idx = 1
    /\ tnow = 0
    /\ cur = "empty"
    /\ calls = 0
    /\ held = {}
    /\ last = NoLast
    /\ hist = NoHist

\* the API is called by the host between ticks, or by a handler that tick is running
CanCall == pc \in {"idle", "handler"}

\* the handlers a scheduling call may pass: the followed one once, any other at will
Passed == IF hist.kind = "none" THEN {"followed", "other"} ELSE {"other"}

\* bookkeeping of scheduling call `k` with argument `a` and handler `h` that returned `r`
Scheduled(k, a, h, r) ==
    /\ calls' = calls + 1
    /\ timers' = r.timers
    /\ held' = held \cup ({r.handle} \ {0})
    /\ last' = [NoLast EXCEPT !.op = "schedule", !.handle = r.handle]
    /\ hist' = IF h = "followed"
               THEN Settle([NoHist EXCEPT !.kind = k, !.arg = a, !.handle = r.handle,
                                          !.anchor = clock], r.timers)
               ELSE hist
    /\ UNCHANGED <<clock, pc, idx, tnow, cur>>

\* in(delay, h)
in(delay, h) ==
    /\ CanCall /\ calls < MaxCalls
    /\ Scheduled("in", delay, h, add_timer(timers, clock, delay, h, 0))

\* at(when, h)
at(when, h) ==
    /\ CanCall /\ calls < MaxCalls
    /\ LET now == clock IN
       Scheduled("at", when, h, add_timer(timers, now, Sub(when, now), h, 0))

\* every(interval, h)
every(interval, h) ==
    /\ CanCall /\ calls < MaxCalls
    /\ Scheduled("every", interval, h, add_timer(timers, clock, interval, h, interval))

\* now_and_every(interval, h)
now_and_every(interval, h) ==
    /\ CanCall /\ calls < MaxCalls
    /\ LET now == clock IN
       Scheduled("now_and_every", interval, h, add_timer(timers, now, now, h, interval))

\* bookkeeping of a cancel or reschedule call `op` on `handle`
Called(op, handle) ==
    /\ calls < MaxCalls
    /\ calls' = calls + 1
    /\ last' = [NoLast EXCEPT !.op = op, !.handle = handle]
    /\ hist' = IF handle # 0 /\ timers[handle].handler = "followed"
               THEN Settle([hist EXCEPT !.cancelled = @ \/ op = "cancel",
                                        !.resched = @ \/ op # "cancel"], timers')
               ELSE hist
    /\ UNCHANGED <<clock, pc, idx, tnow, cur, held>>

\* cancel(handle)
cancel(handle) ==
    /\ CanCall
    /\ timers' = cancel_timer(timers, handle)
    /\ Called("cancel", handle)

\* reschedule_in(handle, delay)
reschedule_in(handle, delay) ==
    /\ CanCall
    /\ timers' = reschedule_timer(timers, handle, clock, delay)
    /\ Called("reschedule", handle)

\* reschedule_at(handle, when)
reschedule_at(handle, when) ==
    /\ CanCall
    /\ LET now == clock IN timers' = reschedule_timer(timers, handle, now, Sub(when, now))
    /\ Called("reschedule", handle)

\* tick(): entry
tick_begin ==
    /\ pc = "idle"
    /\ pc' = "scan"
    /\ idx' = 1
    /\ last' = NoLast
    /\ UNCHANGED <<timers, clock, tnow, cur, calls, held, hist>>

\* tick(): one iteration of the first loop, up to the call of timer.handler()
tick_slot ==
    /\ pc = "scan"
    /\ idx <= max_timers
    /\ LET timer == timers[idx]
           now == clock IN
       IF timer.handler # "empty" /\ tick_due(timer, now)
       THEN /\ pc' = "handler"
            /\ tnow' = now
            /\ cur' = timer.handler
            /\ hist' = IF timer.handler = "followed"
                       THEN [hist EXCEPT !.fired = TRUE]
                       ELSE hist
            /\ UNCHANGED idx
       ELSE /\ idx' = idx + 1
            /\ UNCHANGED <<pc, tnow, cur, hist>>
    /\ last' = NoLast
    /\ UNCHANGED <<timers, clock, calls, held>>

\* what a result of the followed handler does to the history
Resulted(h, status, next, now) ==
    IF h.kind = "done" THEN h
    ELSE IF status = "reschedule"
    THEN [h EXCEPT !.kind = "reschedule", !.arg = next, !.anchor = now, !.resched = FALSE]
    ELSE IF h.kind = "reschedule" THEN [NoHist EXCEPT !.kind = "done", !.handle = h.handle]
    ELSE [h EXCEPT !.anchor = now]

\* the return gone wrong: the loop stays on the slot whose handler has returned
Returned_same_slot(status, next) ==
    /\ hist' = Settle(IF cur = "followed" THEN Resulted(hist, status, next, tnow) ELSE hist,
                      timers')
    /\ last' = [NoLast EXCEPT !.op = "return", !.status = status,
                              !.next = IF status = "reschedule" THEN next ELSE 0]
    /\ pc' = "scan"
    /\ idx' = idx
    /\ cur' = "empty"
    /\ tnow' = 0
    /\ UNCHANGED <<clock, calls, held>>

\* bookkeeping of a handler's return
Returned(status, next) ==
    /\ hist' = Settle(IF cur = "followed" THEN Resulted(hist, status, next, tnow) ELSE hist,
                      timers')
    /\ last' = [NoLast EXCEPT !.op = "return", !.status = status,
                              !.next = IF status = "reschedule" THEN next ELSE 0]
    /\ pc' = "scan"
    /\ idx' = idx + 1
    /\ cur' = "empty"
    /\ tnow' = 0
    /\ UNCHANGED <<clock, calls, held>>

\* tick(): timer.handler() returns {status, next}; the switch is applied to the slot
handler_return(status, next) ==
    /\ pc = "handler"
    /\ timers' = tick_outcome(timers, idx, tnow, status, next)
    /\ Returned(status, next)

\* tick(): the second loop and the return
tick_end ==
    /\ pc = "scan"
    /\ idx = max_timers + 1
    /\ last' = [NoLast EXCEPT !.op = "tick", !.ret = tick_next_expiration(timers, clock)]
    /\ pc' = "idle"
    /\ idx' = 1
    /\ UNCHANGED <<timers, clock, tnow, cur, calls, held, hist>>

\* the clock adapter: the counter advances by one unit and wraps
advance ==
    /\ Sub(clock, InitClock) < MaxTime
    /\ clock' = (clock + 1) % Range
    /\ last' = NoLast
    /\ UNCHANGED <<timers, pc, idx, tnow, cur, calls, held, hist>>

\* the handles the caller can pass: those returned so far, and an empty one
Held == {0} \cup held

Next ==
    \/ \E d \in Delays, h \in Passed : in(d, h)
    \/ \E w \in Whens(clock), h \in Passed : at(w, h)
    \/ \E d \in Delays, h \in Passed : every(d, h)
    \/ \E d \in Delays, h \in Passed : now_and_every(d, h)
    \/ \E h \in Held : cancel(h)
    \/ \E h \in Held, d \in Delays : reschedule_in(h, d)
    \/ \E h \in Held, w \in Whens(clock) : reschedule_at(h, w)
    \/ tick_begin
    \/ tick_slot
    \/ \E s \in Status, n \in Delays : handler_return(s, n)
    \/ tick_end
    \/ advance

Spec == Init /\ [][Next]_vars

\* ------------------------------------------------- arduino-timer.h (legacy)

\* arduino-timer.h: cancel(handle)
legacy_cancel(handle) ==
    /\ CanCall
    /\ timers' = legacy_cancel_timer(timers, handle)
    /\ Called("cancel", handle)

\* arduino-timer.h, tick(): timer.handler() returns (status, next)
legacy_handler_return(status, next) ==
    /\ pc = "handler"
    /\ timers' = legacy_tick_outcome(timers, idx, tnow, status, next)
    /\ Returned(status, next)

\* arduino-timer.h has the same in, at, every, now_and_every and the same loops in tick,
\* its own cancel and switch, and no reschedule_in or reschedule_at
NextLegacy ==
    \/ \E d \in Delays, h \in Passed : in(d, h)
    \/ \E w \in Whens(clock), h \in Passed : at(w, h)
    \/ \E d \in Delays, h \in Passed : every(d, h)
    \/ \E d \in Delays, h \in Passed : now_and_every(d, h)
    \/ \E h \in Held : legacy_cancel(h)
    \/ tick_begin
    \/ tick_slot
    \/ \E s \in Status, n \in Delays : legacy_handler_return(s, n)
    \/ tick_end
    \/ advance

SpecLegacy == Init /\ [][NextLegacy]_vars

\* ------------------------------------------------- a host loop that never stops

\* loop(): tick() is called again once the clock has moved on since the last tick returned
tick_begin_live ==
    /\ last.op # "tick"
    /\ tick_begin

\* the clock adapter between two calls of tick: the counter advances by one unit, wraps,
\* and goes on doing so for ever
advance_live ==
    /\ pc = "idle"
    /\ last.op = "tick"
    /\ clock' = (clock + 1) % Range
    /\ last' = NoLast
    /\ UNCHANGED <<timers, pc, idx, tnow, cur, calls, held, hist>>

\* user code runs inside handlers and, between ticks, after the clock has moved on
CanCallLive == pc = "handler" \/ (pc = "idle" /\ last.op # "tick")

NextLive ==
    \/ \E d \in Delays, h \in Passed : CanCallLive /\ in(d, h)
    \/ \E w \in Whens(clock), h \in Passed : CanCallLive /\ at(w, h)
    \/ \E d \in Delays, h \in Passed : CanCallLive /\ every(d, h)
    \/ \E d \in Delays, h \in Passed : CanCallLive /\ now_and_every(d, h)
    \/ \E h \in Held : CanCallLive /\ cancel(h)
    \/ \E h \in Held, d \in Delays : CanCallLive /\ reschedule_in(h, d)
    \/ \E h \in Held, w \in Whens(clock) : CanCallLive /\ reschedule_at(h, w)
    \/ tick_begin_live
    \/ tick_slot
    \/ \E s \in Status, n \in Delays : handler_return(s, n)
    \/ tick_end
    \/ advance_live

\* tick is called again and again, every handler returns, and the clock keeps running
SpecLive ==
    /\ Init /\ [][NextLive]_vars
    /\ WF_vars(tick_begin_live) /\ WF_vars(tick_slot) /\ WF_vars(tick_end)
    /\ WF_vars(\E s \in Status, n \in Delays : handler_return(s, n))
    /\ WF_vars(advance_live)

\* ---------------------------------------------------------------- steps

\* this step is tick calling the followed handler
Invoked == pc = "scan" /\ pc' = "handler" /\ cur' = "followed"

\* this step is the iteration of tick's first loop on slot i
Examines(i) == pc = "scan" /\ idx = i /\ i <= max_timers /\ (pc' # pc \/ idx' # idx)

\* this step is a handler returning to tick with `status`
Returns(status) == pc = "handler" /\ last'.op = "return" /\ last'.status = status

\* the followed timer is armed and no call has cancelled or rescheduled it
Untouched == hist.kind \in Kinds /\ ~hist.cancelled /\ ~hist.resched

\* elapsed time at the current clock reading since the followed call or latest firing
SinceAnchor == Sub(clock, hist.anchor)

Armed(ts) == {i \in Slots : ts[i].handler # "empty"}

\* ----------------------------------------------------------------- claims

\* C1: a timer scheduled with in(d, h) at reading s, not cancelled or rescheduled, is not
\* invoked while (now - s) mod Range < d, and the tick iteration on its slot that reads a
\* clock with (now - s) mod Range >= d invokes it.
C1_InFiresWhenDue ==
    [][(Untouched /\ hist.kind = "in" /\ ~hist.fired) =>
          /\ Invoked => SinceAnchor >= hist.arg
          /\ (Examines(hist.handle) /\ SinceAnchor >= hist.arg) => Invoked]_vars

\* C2: a timer scheduled with every(interval, h), interval > 0, whose handler always
\* returns repeat and that is not cancelled (or rescheduled) is invoked by exactly the tick
\* iterations that read a clock at least interval after the call or its latest firing, and
\* its slot stays armed after every firing.
C2_EveryFiresAtInterval ==
    [][(Untouched /\ hist.kind = "every" /\ hist.arg > 0) =>
          /\ Invoked => SinceAnchor >= hist.arg
          /\ (Examines(hist.handle) /\ SinceAnchor >= hist.arg) => Invoked
          /\ (Returns("repeat") /\ cur = "followed") =>
                 timers'[hist.handle].handler = "followed"]_vars

\* C3: the slot armed by now_and_every has duration 0, whatever the clock reads, so the
\* first tick iteration on it invokes the handler.
C3_NowAndEveryDurationZero ==
    (Untouched /\ hist.kind = "now_and_every" /\ ~hist.fired /\ cur # "followed") =>
        timers[hist.handle].expires = 0

\* C4: once cancel(h) has returned for an armed timer, tick never invokes that timer's
\* handler again, whether cancel was called between ticks or by another timer's handler.
C4_CancelledNeverInvoked ==
    [][hist.cancelled => ~Invoked]_vars

\* C5: with every slot armed, a scheduling call returns an empty handle and leaves the
\* pool as it was; the armed slots never outnumber the capacity.
C5_FullPoolRejects ==
    /\ [][(Armed(timers) = Slots /\ last'.op = "schedule") =>
             (last'.handle = 0 /\ timers' = timers)]_vars
    /\ [](Cardinality(Armed(timers)) <= max_timers)

\* the pool is full and a scheduling call has just been turned away
C5_Witness ==
    Armed(timers) = Slots /\ last.op = "schedule" /\ last.handle = 0

\* C6: when the handler of a due timer returns completed, or repeat while the slot's
\* repeat is 0, tick frees the slot in that same step of its loop; so a timer scheduled
\* with in or at whose handler returns completed or repeat is not invoked a second time.
C6_OneShotFreed ==
    [][/\ (Returns("completed") \/ (Returns("repeat") /\ timers[idx].repeat = 0)) =>
             timers'[idx] = FreeTimer
       /\ (hist.kind \in {"in", "at"} /\ hist.fired) => ~Invoked]_vars

\* C7: when the handler of a due timer returns reschedule with next = n, tick sets the
\* slot's start to the reading taken for the slot and expires to n, whatever repeat is, and
\* leaves handler and repeat alone; the timer is next invoked by the first tick iteration
\* on its slot that reads a clock at least n after that reading.
C7_RescheduleOverridesRepeat ==
    [][/\ Returns("reschedule") =>
             timers' = [timers EXCEPT ![idx].start = tnow, ![idx].expires = last'.next]
       /\ (hist.kind = "reschedule" /\ ~hist.cancelled /\ ~hist.resched) =>
             /\ Invoked => SinceAnchor >= hist.arg
             /\ (Examines(hist.handle) /\ SinceAnchor >= hist.arg) => Invoked]_vars

\* a timer scheduled with every, whose handler returned reschedule with a next other than
\* its repeat, is being invoked again
C7_Witness ==
    /\ hist.kind = "reschedule" /\ ~hist.cancelled /\ ~hist.resched
    /\ pc = "handler" /\ cur = "followed"
    /\ timers[idx].repeat > 0 /\ timers[idx].repeat # hist.arg

\* time left until slot t is due at reading `now`, 0 when it is due already
TimeLeft(t, now) ==
    IF Sub(now, t.start) >= t.expires THEN 0 ELSE t.expires - Sub(now, t.start)

\* C8: tick returns 0 when no slot is armed after its dispatch pass, and otherwise the
\* least time left over the armed slots at the reading taken after the pass.
C8_TickReturnsLeastTimeLeft ==
    last.op = "tick" =>
        IF Armed(timers) = {} THEN last.ret = 0
        ELSE /\ \E i \in Armed(timers) : last.ret = TimeLeft(timers[i], clock)
             /\ \A i \in Armed(timers) : last.ret <= TimeLeft(timers[i], clock)

\* C9: cancel(h) on an armed timer frees exactly slot h; on an empty handle or a handle
\* to a free slot it leaves the pool as it was; and cancelling again changes nothing more.
C9_CancelIdempotent ==
    [][last'.op = "cancel" =>
          LET h == last'.handle IN
          /\ (h # 0 /\ timers[h].handler # "empty") =>
                timers' = [timers EXCEPT ![h] = FreeTimer]
          /\ (h = 0 \/ timers[h].handler = "empty") => timers' = timers
          /\ cancel_timer(timers', h) = timers']_vars

\* cancel has just freed the followed timer, the other slot still armed
C9_Witness ==
    /\ last.op = "cancel" /\ last.handle # 0 /\ last.handle = hist.handle
    /\ hist.cancelled /\ timers[last.handle] = FreeTimer
    /\ \E i \in Slots : timers[i].handler = "other"

\* C10: after the timer a handle was returned for has been freed, cancel and reschedule_*
\* with that handle leave every timer scheduled since as it is.
C10_StaleHandleHarmless ==
    [][(hist.kind = "done" /\ hist.handle # 0 /\ last'.op \in {"cancel", "reschedule"}
          /\ last'.handle = hist.handle) => timers' = timers]_vars

\* C11: a scheduling call that returns a non-empty handle took a slot that was free and
\* left every other slot as it was, so no two armed timers share a slot; and the slot of
\* the followed timer keeps its handler until a cancel on its handle or until tick applies
\* the result of that timer's own handler.
C11_HandlesDistinctAndKept ==
    [][/\ (last'.op = "schedule" /\ last'.handle # 0) =>
             /\ timers[last'.handle].handler = "empty"
             /\ \A i \in Slots \ {last'.handle} : timers'[i] = timers[i]
       /\ \A i \in Slots :
             (timers[i].handler = "followed" /\ timers'[i].handler # "followed") =>
                 \/ last'.op = "cancel" /\ last'.handle = i
                 \/ last'.op = "return" /\ idx = i /\ cur = "followed"]_vars

\* what C12 says a reschedule call with handle h leaves behind: start = now and the given
\* duration in an armed slot, nothing else touched; the pool as it was otherwise
Rescheduled(h, now, duration) ==
    IF h # 0 /\ timers[h].handler # "empty"
    THEN /\ timers' = [timers EXCEPT ![h] = [handler |-> timers[h].handler, start |-> now,
                                            expires |-> duration,
                                            repeat |-> timers[h].repeat]]
         /\ reschedule_timer(timers', h, now, duration) = timers'
    ELSE timers' = timers

\* C12: reschedule_in(h, d) sets start = now and expires = d of an armed slot, and
\* reschedule_at(h, t) start = now and expires = (t - now) mod Range; handler, repeat and
\* the other slots stay; the same call again at the same reading changes nothing; with an
\* empty handle or a handle to a free slot the pool stays as it was.
C12_RescheduleFrame ==
    [][last'.op = "reschedule" =>
          LET h == last'.handle IN
          /\ \A d \in Delays : reschedule_in(h, d) => Rescheduled(h, clock, d)
          /\ \A w \in Whens(clock) :
                reschedule_at(h, w) => Rescheduled(h, clock, (w - clock) % Range)]_vars

\* a reschedule call has just moved an armed repeating timer to a duration other than
\* its repeat
C12_Witness ==
    /\ last.op = "reschedule" /\ last.handle # 0
    /\ timers[last.handle].handler # "empty"
    /\ timers[last.handle].start = clock
    /\ timers[last.handle].repeat > 0
    /\ timers[last.handle].expires # timers[last.handle].repeat

\* the number of units the clock has advanced between the reading r and the current one
\* (every reading of a behaviour is taken less than Range units after the first)
TrueElapsed(r) == Sub(clock, InitClock) - Sub(r, InitClock)

\* C13: when tick examines an armed slot whose start + expires is past the largest
\* Timepoint, it invokes the handler exactly if the time truly elapsed since start has
\* reached expires, also after the clock has wrapped to a reading below start.
C13_DueAcrossWrap ==
    [][\A i \in Slots :
          (Examines(i) /\ timers[i].handler # "empty"
             /\ timers[i].start + timers[i].expires > TimepointMax) =>
              (pc' = "handler" <=> TrueElapsed(timers[i].start) >= timers[i].expires)]_vars

\* a handler is running that was due at a reading below its slot's start
C13_Witness ==
    /\ pc = "handler" /\ last.op = "none"
    /\ tnow < timers[idx].start
    /\ timers[idx].expires > 0
    /\ timers[idx].start + timers[idx].expires > TimepointMax

\* the duration C14 gives a timer scheduled with at(t, h) at reading n
AtDuration(t, n) == IF t >= n THEN t - n ELSE Range - (n - t)

\* C14: at(t, h) at reading n arms a free slot with start = n, repeat = 0 and expires =
\* t - n, or Range - (n - t) when t is below n; the timer, not cancelled or rescheduled, is
\* invoked by the first tick iteration on its slot that reads a clock at least that long
\* after n, and by none before.
C14_AtDuration ==
    [][/\ \A w \in Whens(clock), h \in Passed :
             (at(w, h) /\ last'.handle # 0) =>
                 timers'[last'.handle] = [handler |-> h, start |-> clock,
                                          expires |-> AtDuration(w, clock), repeat |-> 0]
       /\ (Untouched /\ hist.kind = "at" /\ ~hist.fired) =>
             /\ Invoked => SinceAnchor >= AtDuration(hist.arg, hist.anchor)
             /\ (Examines(hist.handle)
                   /\ SinceAnchor >= AtDuration(hist.arg, hist.anchor)) => Invoked]_vars

\* C15: in every reachable state a slot without a handler has start = 0, expires = 0 and
\* repeat = 0.
C15_FreeSlotsZeroed ==
    \A i \in Slots : timers[i].handler = "empty" => timers[i] = FreeTimer

\* C16: when tick applies the result of a handler, the slot of any other timer, one that
\* the handler scheduled while it ran included, keeps its handler, start, expires and
\* repeat.
C16_OutcomeHitsOwnTimerOnly ==
    [][(last'.op = "return" /\ cur # "followed") =>
          \A i \in Slots : timers[i].handler = "followed" => timers'[i] = timers[i]]_vars

\* C17: when tick has returned r with a slot armed, no armed slot is due at the reading
\* taken after the dispatch pass nor at any of the r - 1 readings after it.
C17_NothingDueBeforeReturnedDelay ==
    (last.op = "tick" /\ Armed(timers) # {}) =>
        \A e \in 0..(last.ret - 1) : \A i \in Armed(timers) :
            ~tick_due(timers[i], (clock + e) % Range)

\* C18: a tick pass goes through the slots in increasing index; the iteration on an armed
\* slot that is due invokes that slot's handler; while a handler runs the pass stays on
\* its slot, and the step that applies its result moves the pass to the next slot, so a
\* slot is invoked at most once in a pass and the result of slot i is applied before a
\* later slot is invoked.
C18_SlotOrder ==
    [][/\ (pc # "idle" /\ pc' # "idle") => idx' \in {idx, idx + 1}
       /\ \A i \in Slots : Examines(i) =>
             IF timers[i].handler # "empty" /\ tick_due(timers[i], clock)
             THEN pc' = "handler" /\ idx' = i /\ cur' = timers[i].handler
             ELSE pc' = "scan" /\ idx' = i + 1
       /\ pc = "handler" =>
             \/ pc' = "handler" /\ idx' = idx /\ cur' = cur
             \/ last'.op = "return" /\ pc' = "scan" /\ idx' = idx + 1
       /\ (pc' = "handler" /\ pc # "handler") => (pc = "scan" /\ idx' = idx)]_vars

\* the handler of slot 1 has just returned and its result is applied; slot 2 is armed and
\* due, and its iteration comes next
C18_Witness ==
    /\ last.op = "return" /\ pc = "scan" /\ idx = 2
    /\ timers[2].handler # "empty" /\ tick_due(timers[2], clock)

\* C19: when a handler returns completed or repeat, the pool that tick leaves is the
\* same whatever next the result carries (and tick's return value is computed from the
\* pool and the clock alone).
C19_NextIgnored ==
    [][(last'.op = "return" /\ last'.status # "reschedule") =>
          \A n \in Delays : timers' = tick_outcome(timers, idx, tnow, last'.status, n)]_vars

\* a handler has just returned repeat and its timer is armed again with its repeat
C19_Witness ==
    /\ last.op = "return" /\ last.status = "repeat" /\ idx > 1
    /\ timers[idx - 1].handler # "empty"
    /\ timers[idx - 1].repeat > 0
    /\ timers[idx - 1].expires = timers[idx - 1].repeat

\* C20: with tick called for ever and the clock advancing one unit between two ticks, a
\* timer that is armed is in the end invoked, or cancelled or rescheduled by a call.
C20_ArmedTimerEventuallyFires ==
    (hist.kind \in Kinds) ~> (hist.fired \/ hist.cancelled \/ hist.resched)

====
